---- MODULE Spec2Model ----
(***************************************************************************)
(* A model of the two mygit programs of this repository:                   *)
(*   prog "A" : src/unnamed/part_000  (init, cat-file, hash-object,         *)
(*              ls-tree, write-tree)                                         *)
(*   prog "B" : src/src/Server.cpp    (init, cat-file, hash-object,         *)
(*              ls-tree)                                                     *)
(* Both work on the same store, ./.git/objects.  A byte is a number in      *)
(* 0..255, a std::string a sequence of bytes.  One action is one run of a   *)
(* command, from main() to the exit of the process.                         *)
(***************************************************************************)
EXTENDS Integers, Sequences, FiniteSets, TLC

VARIABLES
    workdir,   \* the set of children of the working directory
    gitDir,    \* whether ./.git/objects exists
    store,     \* ./.git/objects: directory name -> file name -> the file's bytes
    cmd,       \* the command that ran last: [prog, op, arg]
    out,       \* the payload bytes that command wrote to std::cout
    diag,      \* the messages that command wrote, in order
    status     \* how its process ended

vars == <<workdir, gitDir, store, cmd, out, diag, status>>

\* ------------------------------------------------------------------ bounds

\* The largest number of children of the working directory.
MaxEntries == 2

\* The most bytes a damaged object file keeps of its head, or loses of its tail.
MaxCut == 4

\* ------------------------------------------------------- bytes and strings

NUL == 0
SP == 32
LF == 10

\* std::string::npos, as it is seen after the code's arithmetic on it:
\* npos + 1 wraps to 0, npos + 21 to 20, and (int)npos is -1.
npos == -1

\* Text literals of the code, as bytes.
BlobTag == <<98, 108, 111, 98>>
TreeTag == <<116, 114, 101, 101>>
Mode100644 == <<49, 48, 48, 54, 52, 52>>
\* The mode text of a file that is not executable, given to one that is.
ModeWithoutExec == <<49, 48, 48, 54, 52, 52>>
Mode100755 == <<49, 48, 48, 55, 53, 53>>
Mode120000 == <<49, 50, 48, 48, 48, 48>>
Mode40000 == <<52, 48, 48, 48, 48>>
DotGit == <<46, 103, 105, 116>>
DotDot == <<46, 46>>

\* What an operation that yields a string yields instead when the C++ code
\* throws an exception that nothing catches (std::filesystem::filesystem_error).
Throw == <<-1>>

Min(a, b) == IF a < b THEN a ELSE b

\* std::to_string(n) for n >= 0.
RECURSIVE to_string(_)
to_string(n) == IF n < 10 THEN <<48 + n>> ELSE to_string(n \div 10) \o <<48 + (n % 10)>>

\* s.find(c): the 0-based position of the first c in s, or npos.
Find(s, c) ==
    IF \E i \in 1..Len(s) : s[i] = c
    THEN (CHOOSE i \in 1..Len(s) : s[i] = c /\ \A j \in 1..(i - 1) : s[j] # c) - 1
    ELSE npos

\* The strings pieces[lo..hi] appended one after the other.
RECURSIVE Flatten(_, _, _)
Flatten(pieces, lo, hi) ==
    IF lo > hi THEN <<>>
    ELSE IF lo = hi THEN pieces[lo]
    ELSE LET mid == (lo + hi) \div 2
         IN Flatten(pieces, lo, mid) \o Flatten(pieces, mid + 1, hi)

\* s.substr(pos) for pos <= s.size(); the caller decides what pos > size() does.
SubstrFrom(s, pos) == SubSeq(s, pos + 1, Len(s))

\* s.substr(pos, n) for pos <= s.size(); n = npos takes the rest.
Substr(s, pos, n) ==
    IF n = npos THEN SubSeq(s, pos + 1, Len(s))
    ELSE SubSeq(s, pos + 1, Min(pos + n, Len(s)))

\* s.erase(0, n): drops the first n bytes, all of them when n > s.size().
Erase0(s, n) == SubSeq(s, Min(n, Len(s)) + 1, Len(s))

\* std::string operator<: lexicographic on the bytes, as unsigned values.
RECURSIVE StrLess(_, _)
StrLess(a, b) ==
    IF Len(b) = 0 THEN FALSE
    ELSE IF Len(a) = 0 THEN TRUE
    ELSE IF a[1] # b[1] THEN a[1] < b[1]
    ELSE StrLess(Tail(a), Tail(b))

\* std::sort on a vector of strings.
RECURSIVE InsertSorted(_, _)
InsertSorted(x, s) ==
    IF Len(s) = 0 THEN <<x>>
    ELSE IF StrLess(x, Head(s)) THEN <<x>> \o s
    ELSE <<Head(s)>> \o InsertSorted(x, Tail(s))

\* The names left in the order they were collected in.
SortNamesNoOp(v) == v

RECURSIVE SortNames(_)
SortNames(v) == IF Len(v) = 0 THEN <<>> ELSE InsertSorted(Head(v), SortNames(Tail(v)))

\* ------------------------------------------------------------- the digest

\* SHA_DIGEST_LENGTH
DigestLen == 20

\* The sum of x[i] * weight(i) over i in lo..hi.
RECURSIVE SumBytes(_, _, _, _)
SumBytes(x, w, lo, hi) ==
    IF lo > hi THEN 0
    ELSE IF lo = hi THEN x[lo] * (((w * lo) % 251) + 1)
    ELSE LET mid == (lo + hi) \div 2
         IN SumBytes(x, w, lo, mid) + SumBytes(x, w, mid + 1, hi)

\* SHA1(data, size, hash): a 20-byte digest of the whole buffer.  The model's
\* digest is a checksum with the same interface, not SHA-1's compression
\* function.
SHA1(x) ==
    LET s == SumBytes(x, 7, 1, Len(x)) + 1009 * Len(x) + 11
    IN [i \in 1..DigestLen |->
          ((s * (2 * i + 1) + i) \div (IF i % 3 = 0 THEN 1 ELSE IF i % 3 = 1 THEN 256 ELSE 65536)) % 256]

\* One int through std::hex: its digits in base 16, the lower-case ones.
RECURSIVE HexDigits(_)
HexDigits(n) ==
    LET d == n % 16
        c == IF d < 10 THEN 48 + d ELSE 87 + d
    IN IF n < 16 THEN <<c>> ELSE HexDigits(n \div 16) \o <<c>>

\* A byte through std::hex without std::setw(2) and std::setfill('0').
HexByteNoFill(b) == HexDigits(b)

\* std::setw(2) << std::setfill('0'): pads on the left to two characters.
HexByte(b) == LET h == HexDigits(b) IN IF Len(h) < 2 THEN <<48>> \o h ELSE h

\* The loop over hash[0..19] that appends every byte's two hex characters.
ToHex(raw) == Flatten([i \in 1..Len(raw) |-> HexByte(raw[i])], 1, Len(raw))

\* -------------------------------------------------------------- the codec

Z_OK == 0
Z_DATA_ERROR == -3
Z_BUF_ERROR == -5

\* The first byte of a zlib stream (CMF, deflate with a 32K window).
ZMagic == 120

\* The length of the run of equal bytes that ends x, at most 255.
TailRun(x) ==
    IF Len(x) = 0 THEN 0
    ELSE LET n == Len(x)
             k == CHOOSE k \in 1..n :
                    /\ \A j \in (n - k + 1)..n : x[j] = x[n]
                    /\ (k = n \/ x[n - k] # x[n])
         IN Min(k, 255)

\* The check value of a zlib stream, over the plain data.
ByteSum(x) == (1 + SumBytes(x, 3, 1, Len(x))) % 256

\* zlib's compress(): a header byte, the plain data with its last run of equal
\* bytes folded into a count and the byte, and a check byte over the plain
\* data.  With a destination of compressBound() bytes it returns Z_OK.
Compress(x) ==
    LET k == TailRun(x)
    IN <<ZMagic>> \o SubSeq(x, 1, Len(x) - k) \o <<k, IF k = 0 THEN 0 ELSE x[Len(x)]>>
       \o <<ByteSum(x)>>

\* zlib's uncompress(dest, &destLen, source, sourceLen): Z_OK and the plain
\* data, Z_BUF_ERROR when the data does not fit in destLen bytes, Z_DATA_ERROR
\* when the stream is cut short or damaged (an empty source included).
Uncompress(src, destLen) ==
    IF Len(src) < 4 \/ src[1] # ZMagic THEN [res |-> Z_DATA_ERROR, buf |-> <<>>]
    ELSE LET n == Len(src)
             plain == SubSeq(src, 2, n - 3) \o [j \in 1..src[n - 2] |-> src[n - 1]]
         IN IF Len(plain) > destLen THEN [res |-> Z_BUF_ERROR, buf |-> <<>>]
            ELSE IF src[n] # ByteSum(plain) THEN [res |-> Z_DATA_ERROR, buf |-> <<>>]
            ELSE [res |-> Z_OK, buf |-> plain]

\* ------------------------------------------------------ the working tree

\* What std::filesystem and std::ifstream see of a directory entry.  A file or
\* a directory that is not readable cannot be opened; a symbolic link holds
\* the text of its target, a path relative to the directory it lies in.
File(name, content, exec, readable) ==
    [kind |-> "file", name |-> name, content |-> content, exec |-> exec,
     readable |-> readable, target |-> <<>>, children |-> <<>>]

Symlink(name, target) ==
    [kind |-> "symlink", name |-> name, content |-> <<>>, exec |-> FALSE,
     readable |-> TRUE, target |-> target, children |-> <<>>]

Dir(name, children, readable) ==
    [kind |-> "dir", name |-> name, content |-> <<>>, exec |-> TRUE,
     readable |-> readable, target |-> <<>>, children |-> children]

\* A path that names nothing: std::ifstream cannot open it.
NoFile ==
    [kind |-> "none", name |-> <<>>, content |-> <<>>, exec |-> FALSE,
     readable |-> FALSE, target |-> <<>>, children |-> <<>>]

\* The outcome of stat() that makes std::filesystem::status throw.
ELoop ==
    [kind |-> "eloop", name |-> <<>>, content |-> <<>>, exec |-> FALSE,
     readable |-> FALSE, target |-> <<>>, children |-> <<>>]

\* The child of a directory with a given name, or NoFile.
RECURSIVE Lookup(_, _)
Lookup(kids, name) ==
    IF Len(kids) = 0 THEN NoFile
    ELSE IF Head(kids).name = name THEN Head(kids)
    ELSE Lookup(Tail(kids), name)

\* stat() on a path given by `name` inside the directory with children `kids`:
\* the node the name leads to after following symbolic links, NoFile when it
\* leads nowhere (ENOENT), ELoop when the links loop (ELOOP).
RECURSIVE Stat(_, _, _)
Stat(kids, name, hops) ==
    IF name = DotDot \/ name = <<46>> THEN Dir(name, <<>>, TRUE)
    ELSE LET n == Lookup(kids, name)
         IN IF n.kind # "symlink" THEN n
            ELSE IF hops = 0 THEN ELoop
            ELSE Stat(kids, n.target, hops - 1)

\* ------------------------------------------------------- hashing a file

\* "blob <size>\0" + data, "tree <size>\0" + entries
Frame(tag, payload) == tag \o <<SP>> \o to_string(Len(payload)) \o <<NUL>> \o payload

\* create_sha_hash(file_name, return_in_binary, is_symlink); `f` is what the
\* path names: the link itself when is_symlink, else the file ifstream opens.
create_sha_hash(f, return_in_binary, is_symlink) ==
    IF ~is_symlink /\ ~f.readable THEN <<>>
    ELSE LET store_data == IF is_symlink THEN Frame(BlobTag, f.target)
                           ELSE Frame(BlobTag, f.content)
             hash == SHA1(store_data)
         IN IF return_in_binary THEN hash ELSE ToHex(hash)

\* create_tree_hash(tree_format, return_in_hex)
create_tree_hash(tree_format, return_in_hex) ==
    IF return_in_hex THEN ToHex(SHA1(tree_format)) ELSE SHA1(tree_format)

\* sha_file(data) of Server.cpp: the hex digest (which it also prints).
sha_file(data) == ToHex(SHA1(data))

\* ------------------------------------------------------ the tree format

\* entries[key] = {mode, hash} on the std::unordered_map: the value of an
\* existing key is replaced; a new key goes where the hash table puts it, which
\* `front` decides (the iteration order of the map is unspecified).
RECURSIVE MapAssign(_, _, _)
MapAssign(entries, e, front) ==
    IF \E i \in 1..Len(entries) : entries[i].key = e.key
    THEN [i \in 1..Len(entries) |-> IF entries[i].key = e.key THEN e ELSE entries[i]]
    ELSE IF front THEN <<e>> \o entries ELSE Append(entries, e)

\* entries[key] for a key of the map
MapAt(entries, key) == entries[CHOOSE i \in 1..Len(entries) : entries[i].key = key]

\* The loop that builds entries_string from the sorted keys.
RECURSIVE EncodeEntries(_, _, _)
EncodeEntries(sorted_keys, entries, i) ==
    IF i > Len(sorted_keys) THEN <<>>
    ELSE LET e == MapAt(entries, sorted_keys[i])
         IN e.mode \o <<SP>> \o sorted_keys[i] \o <<NUL>> \o e.hash
            \o EncodeEntries(sorted_keys, entries, i + 1)

RECURSIVE create_tree_format(_, _)
RECURSIVE WalkEntries(_, _, _, _)

\* The loop without the test that skips the entry named .git.
RECURSIVE WalkEntriesNoSkip(_, _, _, _)
WalkEntriesNoSkip(kids, i, entries, front) ==
    IF i > Len(kids) THEN [ok |-> TRUE, map |-> entries]
    ELSE LET entry == kids[i]
             h == IF entry.kind = "file" THEN create_sha_hash(entry, TRUE, FALSE)
                  ELSE IF entry.kind = "symlink" THEN create_sha_hash(entry, TRUE, TRUE)
                  ELSE create_tree_hash(create_tree_format(entry, front), FALSE)
             mode == IF entry.kind = "file" THEN (IF entry.exec THEN Mode100755 ELSE Mode100644)
                     ELSE IF entry.kind = "symlink" THEN Mode120000 ELSE Mode40000
         IN WalkEntriesNoSkip(kids, i + 1,
                MapAssign(entries, [key |-> entry.name, mode |-> mode, hash |-> h], front), front)

\* The loop that skips an entry named .git only when it is a directory.
RECURSIVE WalkEntriesSkipGitDir(_, _, _, _)
WalkEntriesSkipGitDir(kids, i, entries, front) ==
    IF i > Len(kids) THEN [ok |-> TRUE, map |-> entries]
    ELSE LET entry == kids[i]
             st == IF entry.kind = "symlink" THEN Stat(kids, entry.target, Len(kids)) ELSE entry
             h == IF st.kind = "file" THEN create_sha_hash(st, TRUE, FALSE)
                  ELSE IF entry.kind = "symlink" THEN create_sha_hash(entry, TRUE, TRUE)
                  ELSE create_tree_hash(create_tree_format(entry, front), FALSE)
             mode == IF st.kind = "file" THEN (IF st.exec THEN Mode100755 ELSE Mode100644)
                     ELSE IF entry.kind = "symlink" THEN Mode120000 ELSE Mode40000
         IN IF entry.name = DotGit /\ entry.kind = "dir"
            THEN WalkEntriesSkipGitDir(kids, i + 1, entries, front)
            ELSE IF st.kind = "eloop" THEN [ok |-> FALSE, map |-> <<>>]
            ELSE WalkEntriesSkipGitDir(kids, i + 1,
                    MapAssign(entries, [key |-> entry.name, mode |-> mode, hash |-> h], front), front)

\* The loop with is_directory() tested before is_symlink(): a link that leads
\* to a directory is walked as that directory.
RECURSIVE WalkEntriesFollowingLinks(_, _, _, _)
WalkEntriesFollowingLinks(kids, i, entries, front) ==
    IF i > Len(kids) THEN [ok |-> TRUE, map |-> entries]
    ELSE LET entry == kids[i]
             st == IF entry.kind = "symlink" THEN Stat(kids, entry.target, Len(kids)) ELSE entry
             h == IF st.kind = "file" THEN create_sha_hash(st, TRUE, FALSE)
                  ELSE IF st.kind = "dir" THEN create_tree_hash(create_tree_format(st, front), FALSE)
                  ELSE create_sha_hash(entry, TRUE, TRUE)
             mode == IF st.kind = "file" THEN (IF st.exec THEN Mode100755 ELSE Mode100644)
                     ELSE IF st.kind = "dir" THEN Mode40000 ELSE Mode120000
         IN IF entry.name = DotGit THEN WalkEntriesFollowingLinks(kids, i + 1, entries, front)
            ELSE IF st.kind = "eloop" THEN [ok |-> FALSE, map |-> <<>>]
            ELSE WalkEntriesFollowingLinks(kids, i + 1,
                    MapAssign(entries, [key |-> entry.name, mode |-> mode, hash |-> h], front), front)

\* The loop over std::filesystem::directory_iterator(path) of
\* create_tree_format: the map of entries, and whether the loop ended without
\* an exception.
WalkEntries(kids, i, entries, front) ==
    IF i > Len(kids) THEN [ok |-> TRUE, map |-> entries]
    ELSE LET entry == kids[i]
             st == IF entry.kind = "symlink" THEN Stat(kids, entry.target, Len(kids)) ELSE entry
         IN IF entry.name = DotGit THEN WalkEntries(kids, i + 1, entries, front)
            ELSE IF st.kind = "eloop" THEN [ok |-> FALSE, map |-> <<>>]
            ELSE IF st.kind = "file"
            THEN LET file_hash == create_sha_hash(st, TRUE, FALSE)
                     mode == IF st.exec THEN Mode100755 ELSE Mode100644
                 IN WalkEntries(kids, i + 1,
                        MapAssign(entries, [key |-> entry.name, mode |-> mode, hash |-> file_hash], front), front)
            ELSE IF entry.kind = "symlink"
            THEN LET file_hash == create_sha_hash(entry, TRUE, TRUE)
                 IN WalkEntries(kids, i + 1,
                        MapAssign(entries, [key |-> entry.name, mode |-> Mode120000, hash |-> file_hash], front), front)
            ELSE IF st.kind = "dir"
            THEN LET tree_format == create_tree_format(entry, front)
                 IN IF tree_format = Throw THEN [ok |-> FALSE, map |-> <<>>]
                    ELSE WalkEntries(kids, i + 1,
                            MapAssign(entries, [key |-> entry.name, mode |-> Mode40000,
                                                hash |-> create_tree_hash(tree_format, FALSE)], front), front)
            ELSE WalkEntries(kids, i + 1, entries, front)

\* create_tree_format(directory_path): "tree <size>\0" and the entries in the
\* order of their sorted names; Throw when directory_iterator or status throws.
create_tree_format(dir, front) ==
    IF ~dir.readable THEN Throw
    ELSE LET w == WalkEntries(dir.children, 1, <<>>, front)
             entries == w.map
         IN IF ~w.ok THEN Throw
            ELSE LET sorted_keys == SortNames([i \in 1..Len(entries) |-> entries[i].key])
                     entries_string == EncodeEntries(sorted_keys, entries, 1)
                 IN Frame(TreeTag, entries_string)

\* ------------------------------------------------------- the object store

\* ".git/objects/" + hex.substr(0,2) and hex.substr(2)
ObjDir(hex) == SubSeq(hex, 1, Min(2, Len(hex)))
ObjFile(hex) == SubSeq(hex, 3, Len(hex))

\* Whether std::ifstream can open the object file of an id.
HasObject(st, hex) == ObjDir(hex) \in DOMAIN st /\ ObjFile(hex) \in DOMAIN st[ObjDir(hex)]

\* The bytes of the object file of an id.
ObjectBytes(st, hex) == st[ObjDir(hex)][ObjFile(hex)]

\* Every id that has an object file.
StoredIds(st) == UNION {{d \o f : f \in DOMAIN st[d]} : d \in DOMAIN st}

\* The object file opened for appending: a second write adds to the bytes.
WriteObjectAppending(st, hex, data) ==
    LET old == IF ObjDir(hex) \in DOMAIN st THEN st[ObjDir(hex)] ELSE <<>>
        was == IF ObjFile(hex) \in DOMAIN old THEN old[ObjFile(hex)] ELSE <<>>
    IN (ObjDir(hex) :> ((ObjFile(hex) :> (was \o data)) @@ old)) @@ st

\* std::filesystem::create_directory(dir), then std::ofstream objectFile(path)
\* and objectFile.write(compressedData, bound): the directory is kept when it
\* exists, the file is replaced when it exists.
WriteObject(st, hex, data) ==
    LET old == IF ObjDir(hex) \in DOMAIN st THEN st[ObjDir(hex)] ELSE <<>>
    IN (ObjDir(hex) :> ((ObjFile(hex) :> data) @@ old)) @@ st

\* uncompress() called once: a Z_BUF_ERROR is not followed by a larger buffer.
UncompressOnce(blob_data, size) == Uncompress(blob_data, size)

\* The grow-and-retry loop around uncompress(): the buffer starts with the
\* size of the compressed data and doubles on Z_BUF_ERROR.  A result of
\* Z_BUF_ERROR stands for the loop that never ends (a buffer of size 0).
RECURSIVE UncompressRetry(_, _)
UncompressRetry(blob_data, size) ==
    LET r == Uncompress(blob_data, size)
    IN IF r.res = Z_BUF_ERROR /\ size > 0 THEN UncompressRetry(blob_data, size * 2) ELSE r

Msg(stream, text) == [stream |-> stream, text |-> text]

\* The header stripped at the last NUL of the buffer instead of the first.
StripHeaderAtLastNul(buf) ==
    IF Find(buf, NUL) = npos THEN buf
    ELSE SubstrFrom(buf, CHOOSE i \in 1..Len(buf) : buf[i] = NUL /\ \A j \in (i + 1)..Len(buf) : buf[j] # NUL)

\* buf.substr(buf.find('\0') + 1)
StripHeader(buf) == SubstrFrom(buf, Find(buf, NUL) + 1)

\* decompress_git_object_and_remove_header(file_path) of part_000: the string
\* it returns, what it prints, and whether its loop ends.
decompress_git_object_and_remove_header(st, hex) ==
    IF ~HasObject(st, hex)
    THEN [data |-> <<>>, diag |-> <<Msg("cout", "Failed to open")>>, ends |-> TRUE]
    ELSE LET blob_data == ObjectBytes(st, hex)
             r == UncompressRetry(blob_data, Len(blob_data))
         IN IF r.res = Z_BUF_ERROR THEN [data |-> <<>>, diag |-> <<>>, ends |-> FALSE]
            ELSE IF r.res # Z_OK
            THEN [data |-> <<>>, diag |-> <<Msg("cout", "Failed to uncompress")>>, ends |-> TRUE]
            ELSE [data |-> StripHeader(r.buf), diag |-> <<>>, ends |-> TRUE]

\* The Error value decompressFile / decompressTree of Server.cpp return, the
\* bytes they print, and whether they end: by a return, by an exception
\* ("abort") or never ("hang").
ErrorB(flag, message, printed, end) ==
    [flag |-> flag, message |-> message, printed |-> printed, end |-> end]

decompressFile(st, hex) ==
    IF ~HasObject(st, hex) THEN ErrorB(TRUE, "Failed to open", <<>>, "return")
    ELSE LET blob_data == ObjectBytes(st, hex)
             r == UncompressRetry(blob_data, Len(blob_data))
         IN IF r.res = Z_BUF_ERROR THEN ErrorB(FALSE, "", <<>>, "hang")
            ELSE IF r.res # Z_OK THEN ErrorB(TRUE, "Failed to uncompress", <<>>, "return")
            ELSE ErrorB(FALSE, "", StripHeader(r.buf), "return")

\* ------------------------------------------------------- listing a tree

\* for (i...) std::cout << names[i] << "\n"
RECURSIVE PrintNames(_)
PrintNames(names) ==
    IF Len(names) = 0 THEN <<>> ELSE Head(names) \o <<LF>> \o PrintNames(Tail(names))

\* The while loop of ls-tree in part_000: the names it collects.
RECURSIVE ParseTreeA(_, _)
ParseTreeA(decompressed_tree_data, names) ==
    IF Len(decompressed_tree_data) = 0 THEN names
    ELSE LET empty_space_position == Find(decompressed_tree_data, SP)
             d1 == Erase0(decompressed_tree_data, empty_space_position + 1)
             null_terminator_position == Find(d1, NUL)
             tree_file_name == Substr(d1, 0, null_terminator_position)
             d2 == Erase0(d1, null_terminator_position + 1)
             d3 == Erase0(d2, DigestLen)
         IN ParseTreeA(d3, Append(names, tree_file_name))

\* The do-while loop of decompressTree in Server.cpp: the names it collects,
\* and whether it ended without a substr() throwing std::out_of_range.
RECURSIVE ParseTreeB(_, _)
ParseTreeB(trimmed_data, names) ==
    LET z == Find(trimmed_data, NUL)
        line == Substr(trimmed_data, 0, z)
        skip == IF Substr(line, 0, 5) = Mode40000 THEN 6 ELSE 7
    IN IF skip > Len(line) THEN [ok |-> FALSE, names |-> names]
       ELSE IF z + 21 > Len(trimmed_data) THEN [ok |-> FALSE, names |-> names]
       ELSE LET rest == SubstrFrom(trimmed_data, z + 21)
                got == Append(names, SubstrFrom(line, skip))
            IN IF Len(rest) > 1 THEN ParseTreeB(rest, got) ELSE [ok |-> TRUE, names |-> got]

\* decompressTree(tree_path) of Server.cpp
decompressTree(st, hex) ==
    IF ~HasObject(st, hex) THEN ErrorB(TRUE, "Failed to open file", <<>>, "return")
    ELSE LET tree_data == ObjectBytes(st, hex)
             r == UncompressRetry(tree_data, Len(tree_data))
         IN IF r.res = Z_BUF_ERROR THEN ErrorB(FALSE, "", <<>>, "hang")
            ELSE IF r.res # Z_OK THEN ErrorB(TRUE, "Failed to decompress file", <<>>, "return")
            ELSE LET p == ParseTreeB(StripHeader(r.buf), <<>>)
                 IN IF ~p.ok THEN ErrorB(FALSE, "", <<>>, "abort")
                    ELSE ErrorB(FALSE, "", PrintNames(SortNames(p.names)), "return")

\* ------------------------------------------------------------ the inputs

\* The directory entries a working directory is made of.
Pool ==
    { File(<<97>>, <<>>, FALSE, TRUE),                                    \* "a": empty
      File(<<195, 169>>, <<97, NUL, 98, 98, 98, 98, 98>>, TRUE, TRUE),    \* executable, "a\0bbbbb"
      File(<<117>>, <<104, 105>>, FALSE, FALSE),                          \* "u": cannot be opened
      Symlink(<<108>>, <<97>>),                                           \* l -> a
      Symlink(<<112>>, DotDot),                                           \* p -> ..
      Symlink(<<97>>, <<108>>),                                           \* a -> l: with l, a cycle
      Dir(<<100, SP, 100>>, <<>>, TRUE),                                  \* "d d": an empty directory
      Dir(<<101>>, <<File(<<120>>, <<104, 105>>, FALSE, TRUE),
                     File(DotGit, <<103>>, FALSE, TRUE)>>, TRUE) }        \* e: holds x and .git

\* Every working directory of at most MaxEntries children: no two children
\* of a directory have the same name.
Workdirs ==
    {w \in SUBSET Pool : /\ Cardinality(w) <= MaxEntries
                         /\ \A m, n \in w : m.name = n.name => m = n}

\* Every order in which a directory iterator can list a set of children.
Listings(w) ==
    {l \in [1..Cardinality(w) -> w] : \A i, j \in 1..Cardinality(w) : i # j => l[i] # l[j]}

\* A file name that names nothing in the working directory.
MissingName == <<122>>

\* What a path of one name leads to in the working directory.
Named(w, name) ==
    IF \E n \in w : n.name = name THEN CHOOSE n \in w : n.name = name ELSE NoFile

\* The paths hash-object is run on: the regular files of the working
\* directory, and a path that does not exist.
FileArgs(w) == {n.name : n \in {k \in w : k.kind = "file"}} \cup {MissingName}

\* A set as a sequence, in some order.
RECURSIVE SeqOf(_)
SeqOf(S) == IF S = {} THEN <<>> ELSE LET e == CHOOSE e \in S : TRUE IN <<e>> \o SeqOf(S \ {e})

\* ./.git as the directory iterator of "." sees it: objects/ with the store's
\* directories and files.
GitNode(st) ==
    LET files(d) == SeqOf({File(f, st[d][f], FALSE, TRUE) : f \in DOMAIN st[d]})
        dirs == SeqOf({Dir(d, files(d), TRUE) : d \in DOMAIN st})
    IN Dir(DotGit, <<Dir(<<111, 98, 106, 101, 99, 116, 115>>, dirs, TRUE)>>, TRUE)

\* The directory "." of write-tree, listed in the order `listing`.
CurrentDir(listing, git, st) ==
    Dir(<<46>>, IF git THEN <<GitNode(st)>> \o listing ELSE listing, TRUE)

\* The ids the inspecting commands are run on: the id of every blob and of the
\* tree the writing commands can report for this working directory.
IdArgs(w) ==
    LET blobs == {create_sha_hash(Named(w, n), FALSE, FALSE) : n \in FileArgs(w)} \ {<<>>}
        tf == create_tree_format(CurrentDir(SeqOf(w), FALSE, <<>>), FALSE)
    IN blobs \cup (IF tf = Throw THEN {} ELSE {create_tree_hash(tf, TRUE)})

\* ----------------------------------------------------------- the commands

Command(prog, op, arg) == [prog |-> prog, op |-> op, arg |-> arg]

Result(c, o, d, s) == cmd' = c /\ out' = o /\ diag' = d /\ status' = s

\* main, command == "init", of both programs
CmdInit(prog) ==
    /\ gitDir' = TRUE
    /\ Result(Command(prog, "init", <<>>), <<>>, <<Msg("cout", "Initialized")>>, "EXIT_SUCCESS")
    /\ UNCHANGED <<workdir, store>>

\* cat-file opening the object file with a stream that creates it.
CatFileCreating(hex) ==
    LET r == decompress_git_object_and_remove_header(store, hex)
    IN /\ Result(Command("A", "cat-file", hex), r.data, r.diag,
                 IF r.ends THEN "EXIT_SUCCESS" ELSE "hang")
       /\ store' = IF HasObject(store, hex) THEN store ELSE WriteObject(store, hex, <<>>)
       /\ UNCHANGED <<workdir, gitDir>>

\* main, command == "cat-file", of part_000
CatFileA(hex) ==
    LET r == decompress_git_object_and_remove_header(store, hex)
    IN /\ Result(Command("A", "cat-file", hex), r.data, r.diag,
                 IF r.ends THEN "EXIT_SUCCESS" ELSE "hang")
       /\ UNCHANGED <<workdir, gitDir, store>>

\* main, command == "hash-object", of part_000: create_sha_hash, then
\* compress_blob_data_and_write_to_objects.
HashObjectA(name) ==
    LET f == Named(workdir, name)
        sha_hash == create_sha_hash(f, FALSE, FALSE)
        c == Command("A", "hash-object", name)
    IN IF ~f.readable
       THEN /\ Result(c, <<>>, <<Msg("cerr", "Error: File not found"), Msg("cerr", "Error: File not found")>>,
                      "EXIT_SUCCESS")
            /\ UNCHANGED <<workdir, gitDir, store>>
       ELSE IF ~gitDir
       THEN /\ Result(c, <<>>, <<>>, "abort")
            /\ UNCHANGED <<workdir, gitDir, store>>
       ELSE /\ store' = WriteObject(store, sha_hash, Compress(Frame(BlobTag, f.content)))
            /\ Result(c, sha_hash \o <<LF>>, <<>>, "EXIT_SUCCESS")
            /\ UNCHANGED <<workdir, gitDir>>

\* main, command == "ls-tree", of part_000
LsTreeA(hex) ==
    LET r == decompress_git_object_and_remove_header(store, hex)
        names == ParseTreeA(r.data, <<>>)
    IN /\ Result(Command("A", "ls-tree", hex),
                 IF r.ends THEN PrintNames(SortNames(names)) ELSE <<>>, r.diag,
                 IF r.ends THEN "EXIT_SUCCESS" ELSE "hang")
       /\ UNCHANGED <<workdir, gitDir, store>>

\* main, command == "write-tree", of part_000: create_tree_format,
\* create_tree_hash, then compress_tree_format_and_write_to_objects.
WriteTreeA(listing, front) ==
    LET tree_format == create_tree_format(CurrentDir(listing, gitDir, store), front)
        c == Command("A", "write-tree", <<>>)
    IN IF tree_format = Throw \/ ~gitDir
       THEN /\ Result(c, <<>>, <<>>, "abort")
            /\ UNCHANGED <<workdir, gitDir, store>>
       ELSE LET tree_hash_hex == create_tree_hash(tree_format, TRUE)
            IN /\ store' = WriteObject(store, tree_hash_hex, Compress(tree_format))
               /\ Result(c, tree_hash_hex \o <<LF>>, <<>>, "EXIT_SUCCESS")
               /\ UNCHANGED <<workdir, gitDir>>

\* main of Server.cpp after a call that returned the Error value err:
\* if (err.isError()) { std::cout << err.getMessage() << std::endl; return EXIT_FAILURE; }
MainB(c, err) ==
    IF err.end # "return" THEN Result(c, err.printed, <<>>, err.end)
    ELSE IF err.flag
    THEN Result(c, err.printed, <<Msg("cout", err.message)>>, "EXIT_FAILURE")
    ELSE Result(c, err.printed, <<>>, "EXIT_SUCCESS")

\* main, command == "cat-file", of Server.cpp
CatFileB(hex) ==
    /\ MainB(Command("B", "cat-file", hex), decompressFile(store, hex))
    /\ UNCHANGED <<workdir, gitDir, store>>

\* main, command == "ls-tree", of Server.cpp
LsTreeB(hex) ==
    /\ MainB(Command("B", "ls-tree", hex), decompressTree(store, hex))
    /\ UNCHANGED <<workdir, gitDir, store>>

\* main, command == "hash-object", and hash_object(file_path) of Server.cpp.
\* On the path that writes the object nothing sets the flag of the Error
\* value, so isError() reads an indeterminate bool: `flag` is either value.
HashObjectB(name, flag) ==
    LET f == Named(workdir, name)
        content == Frame(BlobTag, f.content)
        buffer == sha_file(content)
        c == Command("B", "hash-object", name)
    IN IF ~f.readable
       THEN /\ MainB(c, ErrorB(TRUE, "Failed to open", <<>>, "return"))
            /\ UNCHANGED <<workdir, gitDir, store>>
       ELSE IF ~gitDir
       THEN /\ MainB(c, ErrorB(flag, "", buffer \o <<LF>>, "abort"))
            /\ UNCHANGED <<workdir, gitDir, store>>
       ELSE /\ store' = WriteObject(store, buffer, Compress(content))
            /\ MainB(c, ErrorB(flag, "", buffer \o <<LF>>, "return"))
            /\ UNCHANGED <<workdir, gitDir>>

Init ==
    /\ workdir \in Workdirs
    /\ gitDir = FALSE
    /\ store = <<>>
    /\ cmd = Command("", "", <<>>)
    /\ out = <<>>
    /\ diag = <<>>
    /\ status = ""

Next ==
    \/ \E prog \in {"A", "B"} : CmdInit(prog)
    \/ \E hex \in IdArgs(workdir) :
        \/ CatFileA(hex)
        \/ CatFileB(hex)
        \/ LsTreeA(hex)
        \/ LsTreeB(hex)
    \/ \E name \in FileArgs(workdir) :
        \/ HashObjectA(name)
        \/ \E flag \in BOOLEAN : HashObjectB(name, flag)
    \/ \E listing \in Listings(workdir), front \in BOOLEAN : WriteTreeA(listing, front)

Spec == Init /\ [][Next]_vars

\* ------------------------------------- inspecting a damaged object file

\* Object files as compress() wrote them: a blob, the empty tree, and a tree
\* of one entry.
SoundFiles ==
    { Compress(Frame(BlobTag, <<97, NUL, 98, 98, 98, 98, 98>>)),
      Compress(Frame(TreeTag, <<>>)),
      Compress(create_tree_format(Dir(<<46>>, <<File(<<120>>, <<104, 105>>, FALSE, TRUE)>>, TRUE), FALSE)) }

\* What std::ifstream can read from an object file that was cut short (down
\* to a few bytes or to none, or by a few bytes) or whose run count was changed.
DamagedFiles ==
    {SubSeq(g, 1, k) : g \in SoundFiles, k \in 0..MaxCut}
    \cup {SubSeq(g, 1, Len(g) - k) : g \in SoundFiles, k \in 0..MaxCut}
    \cup {[g EXCEPT ![Len(g) - 2] = m] : g \in SoundFiles, m \in {0, 40, 255}}

\* The id the damaged object file is stored under.
DamagedId == ToHex(SHA1(<<>>))

\* A store that holds one object file, sound or damaged.
InitDamaged ==
    /\ workdir = {}
    /\ gitDir = TRUE
    /\ store \in {WriteObject(<<>>, DamagedId, bytes) : bytes \in DamagedFiles}
    /\ cmd = Command("", "", <<>>)
    /\ out = <<>>
    /\ diag = <<>>
    /\ status = ""

\* cat-file and ls-tree of both programs on that object.
NextDamaged ==
    \E hex \in StoredIds(store) :
        \/ CatFileA(hex)
        \/ CatFileB(hex)
        \/ LsTreeA(hex)
        \/ LsTreeB(hex)

SpecDamaged == InitDamaged /\ [][NextDamaged]_vars

\* ---------------------------------------------------- reading the store

\* The plain bytes of a stored object, <<>> when the file is no zlib stream.
Plain(st, hex) ==
    LET r == Uncompress(ObjectBytes(st, hex), 4 * Len(ObjectBytes(st, hex)) + 255)
    IN IF r.res = Z_OK THEN r.buf ELSE <<>>

\* The bytes after the first NUL of a framed buffer.
PayloadOf(buf) == SubSeq(buf, Find(buf, NUL) + 2, Len(buf))

\* The id a command printed: the first line of its output.
PrintedId(o) == SubSeq(o, 1, Find(o, LF))

\* Whether pat occurs in s, and how often.
Occurrences(s, pat) ==
    {k \in 0..(Len(s) - Len(pat)) : SubSeq(s, k + 1, k + Len(pat)) = pat}

Contains(s, pat) == Occurrences(s, pat) # {}

\* Byte-wise order of two names.
ByteLess(a, b) ==
    \E k \in 1..(Len(b)) :
        /\ \A j \in 1..(k - 1) : j <= Len(a) /\ a[j] = b[j]
        /\ (k > Len(a) \/ (k <= Len(a) /\ a[k] < b[k]))

\* The value of a decimal numeral, -1 when the text is none.
RECURSIVE DecimalValue(_)
DecimalValue(t) ==
    IF Len(t) = 0 \/ \E i \in 1..Len(t) : t[i] < 48 \/ t[i] > 57 THEN -1
    ELSE IF Len(t) > 1 /\ t[1] = 48 THEN -1
    ELSE IF Len(t) = 1 THEN t[1] - 48
    ELSE 10 * DecimalValue(SubSeq(t, 1, Len(t) - 1)) + (t[Len(t)] - 48)

\* The value of a lower-case hex digit, -1 for any other character.
HexValue(c) == IF c >= 48 /\ c <= 57 THEN c - 48 ELSE IF c >= 97 /\ c <= 102 THEN c - 87 ELSE -1

\* The children of the working directory that a snapshot records.
Recorded(w) == {n \in w : n.name # DotGit}

WriteTreeDone == cmd.op = "write-tree" /\ status = "EXIT_SUCCESS"

\* The payload of the tree the last write-tree stored and reported.
WrittenTree == PayloadOf(Plain(store, PrintedId(out)))

\* The digest of the blob that holds `content`.
BlobDigest(content) == SHA1(BlobTag \o <<SP>> \o to_string(Len(content)) \o <<NUL>> \o content)

\* The ids embedded in the tree of the working directory, one per child.
EmbeddedIds == {e.hash : e \in {WalkEntries(SeqOf(workdir), 1, <<>>, FALSE).map[i] :
                                   i \in 1..Cardinality(Recorded(workdir))}}

\* C1: when write-tree has completed, every id embedded in the tree it wrote
\* has an object file in the store.
C1_EveryEmbeddedIdStored ==
    WriteTreeDone => \A id \in EmbeddedIds : HasObject(store, ToHex(id))

\* C2: a file stored with hash-object reads back with cat-file as exactly its
\* content: after hash-object, both programs' cat-file of the printed id emit
\* the content, and a cat-file run on the id of a stored file's blob has
\* emitted the content.
C2_RoundTrip ==
    /\ (cmd.op = "hash-object" /\ out # <<>> /\ status # "abort") =>
          /\ decompress_git_object_and_remove_header(store, PrintedId(out)).data
                = Named(workdir, cmd.arg).content
          /\ decompressFile(store, PrintedId(out)).printed = Named(workdir, cmd.arg).content
          /\ ~decompressFile(store, PrintedId(out)).flag
    /\ \A n \in workdir :
          (/\ n.kind = "file" /\ n.readable
           /\ cmd.op = "cat-file"
           /\ cmd.arg = ToHex(BlobDigest(n.content))
           /\ HasObject(store, cmd.arg)) => out = n.content /\ status = "EXIT_SUCCESS"

\* C2's case: cat-file has read back a blob whose content holds a NUL byte
\* and whose compressed form is shorter than the framed buffer, so that the
\* first uncompress() call does not fit.
C2_Witness ==
    /\ cmd.op = "cat-file"
    /\ HasObject(store, cmd.arg)
    /\ \E n \in workdir :
        /\ n.kind = "file" /\ cmd.arg = ToHex(BlobDigest(n.content))
        /\ \E i \in 1..Len(n.content) : n.content[i] = NUL
        /\ Len(ObjectBytes(store, cmd.arg)) < Len(Plain(store, cmd.arg))
        /\ out = n.content

\* C3: in a snapshot every symbolic link is recorded with mode 120000 and the
\* id of the blob of its target text.
C3_SymlinkRecordedAsLink ==
    WriteTreeDone =>
        \A n \in Recorded(workdir) :
            n.kind = "symlink" =>
                Contains(WrittenTree, Mode120000 \o <<SP>> \o n.name \o <<NUL>> \o BlobDigest(n.target))

\* C3's failing case: a snapshot has recorded a link to a regular file.
LinkToFile(w) == {n \in w : n.kind = "symlink" /\ Named(w, n.target).kind = "file"}

\* Whether the plain bytes of an object are "<blob|tree> <length>NUL<payload>"
\* with the length of the payload in the length field.
WellFramed(buf) ==
    LET z == Find(buf, NUL)
        header == SubSeq(buf, 1, z)
    IN /\ z # npos
       /\ Len(header) >= 6
       /\ SubSeq(header, 1, 5) \in {BlobTag \o <<SP>>, TreeTag \o <<SP>>}
       /\ DecimalValue(SubSeq(header, 6, Len(header))) = Len(buf) - z - 1

\* Whether a 40-character name is the lower-case hex form of a digest.
IsHexOf(hex, raw) ==
    /\ Len(hex) = 2 * Len(raw)
    /\ \A i \in 1..Len(raw) : 16 * HexValue(hex[2 * i - 1]) + HexValue(hex[2 * i]) = raw[i]
    /\ \A i \in 1..Len(hex) : HexValue(hex[i]) >= 0

\* C4: every object file lies in a directory named by 2 hex characters, is
\* named by 38, and holds the compressed form of a framed buffer whose length
\* field is the length of its payload and whose digest is directory name +
\* file name.
C4_StoreWellFormed ==
    \A d \in DOMAIN store : \A f \in DOMAIN store[d] :
        LET r == Uncompress(store[d][f], 4 * Len(store[d][f]) + 255)
        IN /\ Len(d) = 2 /\ Len(f) = 38
           /\ r.res = Z_OK
           /\ WellFramed(r.buf)
           /\ IsHexOf(d \o f, SHA1(r.buf))

\* C4's case: the store holds a blob written by each program and a tree.
C4_Witness ==
    /\ \E hex \in StoredIds(store) : SubSeq(Plain(store, hex), 1, 4) = TreeTag
    /\ \E hex \in StoredIds(store) :
          SubSeq(Plain(store, hex), 1, 4) = BlobTag /\ Len(PayloadOf(Plain(store, hex))) > 0
    /\ cmd.op = "hash-object" /\ cmd.prog = "B"

\* The names of the recorded children, in ascending byte-wise order.
AscendingNames(w) ==
    LET names == {n.name : n \in Recorded(w)}
    IN CHOOSE l \in [1..Cardinality(names) -> names] :
          \A i, j \in 1..Cardinality(names) : i < j => ByteLess(l[i], l[j])

\* Where the record of a name starts in a tree payload.
RecordAt(payload, name) == Occurrences(payload, <<SP>> \o name \o <<NUL>>)

\* The id of the tree write-tree reports for a working directory.
TreeIdOf(w) == create_tree_hash(create_tree_format(CurrentDir(SeqOf(w), FALSE, <<>>), FALSE), TRUE)

\* C5 (the payload): the tree a snapshot writes holds one record per child,
\* in strictly ascending byte-wise order of the names.
C5_PayloadSorted ==
    WriteTreeDone =>
        LET names == AscendingNames(workdir)
        IN /\ \A i \in 1..Len(names) : Cardinality(RecordAt(WrittenTree, names[i])) = 1
           /\ \A i, j \in 1..Len(names) :
                 i < j => \A p \in RecordAt(WrittenTree, names[i]) :
                             \A q \in RecordAt(WrittenTree, names[j]) : p < q

\* C5 (the listing): ls-tree of the tree of a directory lists the names of the
\* children in ascending byte-wise order.
C5_ListingSorted ==
    (/\ cmd.op = "ls-tree" /\ cmd.prog = "A"
     /\ HasObject(store, cmd.arg)
     /\ SubSeq(Plain(store, cmd.arg), 1, 4) = TreeTag) =>
        out = PrintNames(AscendingNames(workdir))

RECURSIVE RefDecode(_, _)
RefDecode(payload, names) ==
    IF Len(payload) = 0 THEN [ok |-> TRUE, names |-> names]
    ELSE LET sp == Find(payload, SP)
             z == Find(payload, NUL)
         IN IF \/ sp = npos \/ z = npos \/ z < sp + 2
               \/ SubSeq(payload, 1, sp) \notin {Mode100644, Mode100755, Mode120000, Mode40000}
               \/ Len(payload) < z + 1 + DigestLen
            THEN [ok |-> FALSE, names |-> names]
            ELSE RefDecode(SubSeq(payload, z + 2 + DigestLen, Len(payload)),
                           Append(names, SubSeq(payload, sp + 2, z)))

\* Whether the names of a decoded tree ascend strictly.
Ascending(names) == \A i, j \in 1..Len(names) : i < j => ByteLess(names[i], names[j])

LsTreeOnObject == cmd.op = "ls-tree" /\ HasObject(store, cmd.arg)

\* C6: ls-tree of a tree that encodes a well-formed sequence of entries, the
\* empty one included, lists exactly the encoded names, in their order.
C6_DecodeOfEncode ==
    LsTreeOnObject =>
        LET d == RefDecode(PayloadOf(Plain(store, cmd.arg)), <<>>)
        IN (d.ok /\ Ascending(d.names)) =>
               out = PrintNames(d.names) /\ status = "EXIT_SUCCESS"

\* C7: ls-tree of an object whose payload is not made of whole entries fails
\* and lists nothing.
C7_CorruptTreeRejected ==
    LsTreeOnObject =>
        (~RefDecode(PayloadOf(Plain(store, cmd.arg)), <<>>).ok =>
            out = <<>> /\ status = "EXIT_FAILURE")

\* Whether the last command is one of the failures the programs can meet.
CommandFailed ==
    \/ cmd.op \in {"cat-file", "ls-tree"} /\ ~HasObject(store, cmd.arg)
    \/ cmd.op = "hash-object" /\ ~Named(workdir, cmd.arg).readable

\* C8: a command that fails reports the error and exits with a status
\* other than zero.
C8_FailureExitsNonZero ==
    CommandFailed => diag # <<>> /\ status # "EXIT_SUCCESS"

NotFoundReported(d) ==
    \E i \in 1..Len(d) : d[i].text \in {"Failed to open", "Failed to open file"}

\* C9: cat-file or ls-tree of an id that has no object file reports that the
\* file cannot be opened, emits no payload and leaves the store as it was.
C9_MissingObjectNoEffect ==
    [][(cmd'.op \in {"cat-file", "ls-tree"} /\ ~HasObject(store, cmd'.arg)) =>
          /\ store' = store
          /\ gitDir' = gitDir
          /\ out' = <<>>
          /\ NotFoundReported(diag')]_vars

\* C9's case: an id without an object file has been inspected while the store
\* held other objects.
C9_Witness ==
    /\ cmd.op \in {"cat-file", "ls-tree"}
    /\ ~HasObject(store, cmd.arg)
    /\ StoredIds(store) # {}
    /\ NotFoundReported(diag)

\* "tree 0" and one NUL byte
EmptyTree == <<116, 114, 101, 101, 32, 48, 0>>

\* C10: the snapshot of a directory with no children to record is the object
\* "tree 0\0", reported by the digest of that buffer, and an empty
\* subdirectory is recorded with that same id.
C10_EmptyTree ==
    WriteTreeDone =>
        /\ Recorded(workdir) = {} =>
              /\ Plain(store, PrintedId(out)) = EmptyTree
              /\ Len(WrittenTree) = 0
              /\ IsHexOf(PrintedId(out), SHA1(EmptyTree))
        /\ \A n \in Recorded(workdir) :
              (n.kind = "dir" /\ n.children = <<>>) =>
                  Contains(WrittenTree, Mode40000 \o <<SP>> \o n.name \o <<NUL>> \o SHA1(EmptyTree))

\* C10's case: write-tree has run in a directory that holds nothing but the
\* store's .git.
C10_Witness ==
    WriteTreeDone /\ workdir = {} /\ gitDir /\ Plain(store, PrintedId(out)) = EmptyTree

\* Whether a step is a hash-object run that wrote its object.
HashObjectWrote == cmd'.op = "hash-object" /\ out' # <<>> /\ status' # "abort"

\* C11: no command changes the bytes stored under an id that has an object
\* file, and a hash-object run on a file whose blob is already stored reports
\* the id of that blob and leaves the store as it was.
C11_WrittenOnce ==
    [][/\ \A id \in StoredIds(store) :
            HasObject(store', id) /\ ObjectBytes(store', id) = ObjectBytes(store, id)
       /\ \A n \in workdir :
            (/\ HashObjectWrote /\ cmd'.arg = n.name
             /\ HasObject(store, ToHex(BlobDigest(n.content)))) =>
                /\ PrintedId(out') = ToHex(BlobDigest(n.content))
                /\ store' = store]_vars

\* C11's case: hash-object has written its object into a store that holds
\* a tree and the blobs of two files.
C11_Witness ==
    /\ cmd.op = "hash-object" /\ status = "EXIT_SUCCESS"
    /\ Cardinality(StoredIds(store)) >= 3
    /\ \E hex \in StoredIds(store) : SubSeq(Plain(store, hex), 1, 4) = TreeTag

\* The mode text the tree format gives a regular file or a directory:
\* "100755", "100644", "40000".
ModeText(n) ==
    IF n.kind = "dir" THEN <<52, 48, 48, 48, 48>>
    ELSE IF n.exec THEN <<49, 48, 48, 55, 53, 53>>
    ELSE <<49, 48, 48, 54, 52, 52>>

\* The offset in a tree payload of the space before a child's name.
NameAt(payload, name) == CHOOSE k \in RecordAt(payload, name) : TRUE

\* The bytes of a tree payload between the NUL of the record before the i-th
\* name and the space of the i-th: the id of the record before, then the mode.
BeforeName(payload, names, i) ==
    LET from == IF i = 1 THEN 0
                ELSE NameAt(payload, names[i - 1]) + Len(names[i - 1]) + 2
    IN SubSeq(payload, from + 1, NameAt(payload, names[i]))

\* C12: in the tree a snapshot writes, the record of a regular file starts
\* with 100755 when the file is executable by its owner and with 100644 when
\* it is not, the record of a subdirectory starts with 40000, and nothing
\* but the id of the record before stands in front of that mode text.
C12_ModeOfKind ==
    WriteTreeDone =>
        LET names == AscendingNames(workdir)
        IN \A i \in 1..Len(names) :
              LET n == Named(workdir, names[i])
                  seg == BeforeName(WrittenTree, names, i)
              IN n.kind \in {"file", "dir"} =>
                    /\ Len(seg) >= Len(ModeText(n))
                    /\ SubSeq(seg, Len(seg) - Len(ModeText(n)) + 1, Len(seg)) = ModeText(n)
                    /\ Len(seg) - Len(ModeText(n)) \in (IF i = 1 THEN {0} ELSE {0, DigestLen})

\* C12's case: a snapshot has recorded an executable file after a directory.
C12_Witness ==
    /\ WriteTreeDone
    /\ \E n \in workdir : n.kind = "file" /\ n.exec
    /\ \E n \in workdir : n.kind = "dir"
    /\ Cardinality(RecordAt(WrittenTree, <<195, 169>>)) = 1

\* The symbolic links of a directory that lead to a directory.
LinkToDir(w) == {n \in w : n.kind = "symlink" /\ Stat(SeqOf(w), n.target, Cardinality(w)).kind = "dir"}

\* The symbolic links of a directory that lead back to themselves.
LinkInCycle(w) == {n \in w : n.kind = "symlink" /\ Stat(SeqOf(w), n.target, Cardinality(w)).kind = "eloop"}

\* C13: write-tree ends on every directory, with links to an ancestor and
\* links in a cycle, and a link that leads to a directory is recorded as a
\* link, with the blob of its target text, never as the tree of the directory.
C13_LinkedDirNotWalked ==
    cmd.op = "write-tree" =>
        /\ status \in {"EXIT_SUCCESS", "abort"}
        /\ WriteTreeDone =>
              \A n \in LinkToDir(workdir) :
                  /\ Contains(WrittenTree, <<49, 50, 48, 48, 48, 48, SP>> \o n.name \o <<NUL>>
                                               \o BlobDigest(n.target))
                  /\ ~Contains(WrittenTree, <<52, 48, 48, 48, 48, SP>> \o n.name \o <<NUL>>)

\* C13's case: a snapshot has recorded a link to the parent directory.
C13_Witness ==
    WriteTreeDone /\ LinkToDir(workdir) # {} /\ Cardinality(workdir) = MaxEntries

\* write-tree has ended in a directory that holds two links in a cycle.
C13_CycleEnded == cmd.op = "write-tree" /\ LinkInCycle(workdir) # {} /\ status = "abort"

\* The outcome of uncompress() on the inspected object with a buffer that is
\* large enough for any plain data of it.
Inflated == Uncompress(ObjectBytes(store, cmd.arg), 4 * Len(ObjectBytes(store, cmd.arg)) + 255)

\* C14: cat-file and ls-tree of an object file, sound or damaged, come to
\* the end of the retry loop; a sound file that needs a larger buffer is read
\* without any error reported, and a damaged one ends with the codec's error.
C14_RetryLoopEnds ==
    (cmd.op \in {"cat-file", "ls-tree"} /\ HasObject(store, cmd.arg)) =>
        /\ status # "hang"
        /\ Inflated.res = Z_OK =>
              /\ diag = <<>>
              /\ cmd.op = "cat-file" => out = PayloadOf(Inflated.buf) /\ status = "EXIT_SUCCESS"
        /\ Inflated.res # Z_OK =>
              /\ Inflated.res = Z_DATA_ERROR
              /\ out = <<>>
              /\ \E i \in 1..Len(diag) :
                    diag[i].text \in {"Failed to uncompress", "Failed to decompress file"}

\* C14's case: cat-file has read an object whose first uncompress() call
\* signalled a buffer too small.
C14_Witness ==
    /\ cmd.op = "cat-file" /\ HasObject(store, cmd.arg)
    /\ Uncompress(ObjectBytes(store, cmd.arg), Len(ObjectBytes(store, cmd.arg))).res = Z_BUF_ERROR
    /\ status = "EXIT_SUCCESS"

\* An object file of no bytes has been inspected.
C14_EmptyFileInspected ==
    cmd.op \in {"cat-file", "ls-tree"} /\ HasObject(store, cmd.arg) /\ ObjectBytes(store, cmd.arg) = <<>>

\* C15: ls-tree, write-tree and hash-object end with a result or a returned
\* error, never with an exception that nothing catches.
C15_NoUncaughtException ==
    cmd.op \in {"ls-tree", "write-tree", "hash-object"} => status # "abort"

\* Server.cpp's ls-tree has been ended by an exception on the empty tree.
C15_EmptyTreeAborts ==
    /\ cmd.op = "ls-tree" /\ cmd.prog = "B" /\ status = "abort"
    /\ HasObject(store, cmd.arg) /\ Plain(store, cmd.arg) = EmptyTree

\* The entries the walk of the working directory collects.
TreeEntries == WalkEntries(SeqOf(workdir), 1, <<>>, FALSE).map

\* The length of the records of a sequence of entries, each of them the mode,
\* a space, the name, a NUL and 20 id bytes.
RECURSIVE RecordsLength(_)
RecordsLength(entries) ==
    IF Len(entries) = 0 THEN 0
    ELSE Len(Head(entries).mode) + Len(Head(entries).key) + 22 + RecordsLength(Tail(entries))

\* C16: the payload of the tree a snapshot writes is as long as its records
\* are together, each with 20 id bytes, and the last record ends with the 20
\* id bytes of its entry.
C16_TwentyIdBytes ==
    WriteTreeDone =>
        /\ Len(WrittenTree) = RecordsLength(TreeEntries)
        /\ \A n \in Recorded(workdir) :
              \A k \in RecordAt(WrittenTree, n.name) :
                  Len(WrittenTree) >= k + Len(n.name) + 2 + DigestLen

\* A snapshot has recorded a file that cannot be opened.
C16_UnreadableRecorded ==
    WriteTreeDone /\ \E n \in Recorded(workdir) : n.kind = "file" /\ ~n.readable

\* A directory listing without the entries named .git, at every depth.
RECURSIVE WithoutGit(_)
WithoutGit(kids) ==
    IF Len(kids) = 0 THEN <<>>
    ELSE IF Head(kids).name = <<46, 103, 105, 116>> THEN WithoutGit(Tail(kids))
    ELSE <<[Head(kids) EXCEPT !.children = WithoutGit(@)]>> \o WithoutGit(Tail(kids))

\* C17: the tree a snapshot writes has no entry named .git, and its id is the
\* id of the tree of the same directory with every .git taken away, at every
\* depth, whatever the store holds.
C17_StoreNotSnapshotted ==
    WriteTreeDone =>
        /\ ~Contains(WrittenTree, <<SP, 46, 103, 105, 116, NUL>>)
        /\ PrintedId(out) =
              create_tree_hash(create_tree_format(Dir(<<46>>, WithoutGit(SeqOf(workdir)), TRUE), FALSE), TRUE)

\* C17's case: a snapshot has run over a store that holds objects, in a
\* directory with a subdirectory that holds a .git of its own.
C17_Witness ==
    /\ WriteTreeDone
    /\ Cardinality(StoredIds(store)) >= 2
    /\ \E n \in workdir : n.kind = "dir" /\ \E i \in 1..Len(n.children) : n.children[i].name = DotGit

\* C18: when hash-object or write-tree has printed an id, the store holds an
\* object file under that id.
C18_PrintedIdIsStored ==
    (cmd.op \in {"hash-object", "write-tree"} /\ out # <<>>) =>
        HasObject(store, PrintedId(out))

\* C19: when hash-object has written the object of a file, the command ends
\* with status zero and reports no error.
C19_WrittenMeansSuccess ==
    \A n \in workdir :
        (/\ cmd.op = "hash-object" /\ cmd.arg = n.name
         /\ n.kind = "file" /\ n.readable
         /\ HasObject(store, ToHex(BlobDigest(n.content)))) =>
            status = "EXIT_SUCCESS" /\ diag = <<>>

\* C20: the id write-tree reports is the id of the tree of the directory's
\* content, whatever the order in which the children were listed, the order
\* the map of entries kept them in, and the objects the store held.
C20_IdOfContentOnly ==
    WriteTreeDone => PrintedId(out) = TreeIdOf(workdir)

\* C20's case: write-tree has run on a directory of several children over a
\* store that held objects.
C20_Witness ==
    /\ WriteTreeDone
    /\ Cardinality(Recorded(workdir)) = MaxEntries
    /\ Cardinality(StoredIds(store)) >= 2
    /\ PrintedId(out) = TreeIdOf(workdir)
====
